---------------------------- MODULE Spec2Model ----------------------------
(***************************************************************************)
(* FeliCa Lite-S session over PC/SC (package felica_pcsc) and the key and  *)
(* MAC derivation it embeds (package felica).                              *)
(*                                                                         *)
(* Buffers are sequences of bytes (0..255), 1-indexed: Go's s[i] is s[i+1] *)
(* here.  The session object, the transport exchanges it issues and the    *)
(* card on the other side of the transport are the state.                  *)
(***************************************************************************)
EXTENDS Integers, Sequences, FiniteSets, TLC

(***************************************************************************)
(* Bytes                                                                   *)
(***************************************************************************)
Byte == 0..255

RECURSIVE BitXor(_, _, _)
BitXor(a, b, n) ==
    IF n = 0 THEN 0
    ELSE ((a + b) % 2) + 2 * BitXor(a \div 2, b \div 2, n - 1)

RECURSIVE BitAnd(_, _, _)
BitAnd(a, b, n) ==
    IF n = 0 THEN 0
    ELSE ((a % 2) * (b % 2)) + 2 * BitAnd(a \div 2, b \div 2, n - 1)

\* the tables of ^ and & on bytes
XorTable == [a \in Byte |-> [b \in Byte |-> BitXor(a, b, 8)]]
AndTable == [a \in Byte |-> [b \in Byte |-> BitAnd(a, b, 8)]]

\* a ^ b on bytes
Xor8(a, b) == XorTable[a][b]
\* a & b on bytes
And8(a, b) == AndTable[a][b]
\* a << 1 on a byte (the top bit is shifted out)
Shl1(a) == (2 * a) % 256
\* a >> 7 on a byte
Shr7(a) == a \div 128

Zeros(n) == [i \in 1..n |-> 0]

\* func xor(a, b): a[i] = a[i] ^ b[i] for i < len(a); the new content of a
xor(a, b) == [i \in 1..Len(a) |-> Xor8(a[i], b[i])]

\* func reverse(s): the new content of s
reverse(s) == [i \in 1..Len(s) |-> s[Len(s) + 1 - i]]

(***************************************************************************)
(* crypto/des of the standard library, as a keyed permutation of 8-byte    *)
(* blocks: a one-key block permutation and its inverse, composed           *)
(* encrypt-decrypt-encrypt under the three 8-byte thirds of the key.       *)
(***************************************************************************)
BlockSize == 8

DESEncrypt(k, x) ==
    [i \in 1..BlockSize |-> (x[(i % BlockSize) + 1] + k[i] + i) % 256]

DESDecrypt(k, y) ==
    [j \in 1..BlockSize |->
        LET i == ((j + BlockSize - 2) % BlockSize) + 1
        IN  (y[i] + 512 - k[i] - i) % 256]

\* des.NewTripleDESCipher(key).Encrypt(dst, src): the new content of dst
TripleDESEncrypt(key, src) ==
    DESEncrypt(SubSeq(key, 17, 24),
               DESDecrypt(SubSeq(key, 9, 16),
                          DESEncrypt(SubSeq(key, 1, 8), src)))

(***************************************************************************)
(* package felica: keys and MACs                                           *)
(***************************************************************************)
AddressRC    == 128
AddressID    == 130
AddressCKV   == 134
AddressWCNT  == 144
AddressMAC_A == 145
AddressS_PAD0 == 0
AddressS_PAD1 == 1
AddressS_PAD2 == 2
AddressS_PAD3 == 3

\* The shift loop of GenCardKey applied to L
ShiftL(L) ==
    LET LMSB == And8(L[1], 128)
        \* L[i] = L[i] << 1; L[i] = L[i] & (L[i+1] >> 7), for i < len(L)-1
        head == [i \in 1..(Len(L) - 1) |-> And8(Shl1(L[i]), Shr7(L[i + 1]))]
        last == Shl1(L[Len(L)])
    IN  head \o << IF LMSB # 0 THEN Xor8(last, 27) ELSE last >>

\* GenCardKey encrypting M1 as it is for C2 (the C1 it computes and drops)
GenCardKey_NoFlip(masterKey, ID) ==
    LET L  == ShiftL(TripleDESEncrypt(masterKey, Zeros(8)))
        M1 == SubSeq(ID, 1, 8)
        M2 == xor(SubSeq(ID, 9, 16), L)
        T1 == TripleDESEncrypt(masterKey, M1)
        C2 == TripleDESEncrypt(masterKey, M1)
        T2 == TripleDESEncrypt(masterKey, xor(C2, M2))
    IN  T1 \o T2

\* GenCardKey: the value stored in c.CK, from the master key and c.ID
GenCardKey(masterKey, ID) ==
    LET L  == ShiftL(TripleDESEncrypt(masterKey, Zeros(8)))
        M1 == SubSeq(ID, 1, 8)
        M2 == xor(SubSeq(ID, 9, 16), L)
        T1 == TripleDESEncrypt(masterKey, M1)
        M1f == [M1 EXCEPT ![1] = Xor8(M1[1], 128)]
        C2 == TripleDESEncrypt(masterKey, M1f)
        T2 == TripleDESEncrypt(masterKey, xor(C2, M2))
    IN  T1 \o T2

\* the cipher key built from the key as stored, without reverse(ck[:])
ExpandKey_NoReverse(key16) ==
    SubSeq(key16, 9, 16) \o SubSeq(key16, 1, 8) \o SubSeq(key16, 9, 16)

\* k := append(ck[8:], ck[:8]...); k = append(k, ck[8:]...) after reverse(ck[:])
ExpandKey(key16) ==
    LET r == reverse(key16)
    IN  SubSeq(r, 9, 16) \o SubSeq(r, 1, 8) \o SubSeq(r, 9, 16)

\* GenSessionKey without the xor of rc[8:] into data2
GenSessionKey_FirstHalfOnly(CK, RC) ==
    LET k     == ExpandKey(CK)
        data1 == reverse(SubSeq(RC, 1, 8))
        data2 == TripleDESEncrypt(k, data1)
        e2    == TripleDESEncrypt(k, data2)
    IN  reverse(data2) \o reverse(e2)

\* GenSessionKey: the value stored in c.SK, from c.CK and c.RC
GenSessionKey(CK, RC) ==
    LET k     == ExpandKey(CK)
        data1 == reverse(SubSeq(RC, 1, 8))
        data2 == TripleDESEncrypt(k, data1)
        rc2   == reverse(SubSeq(RC, 9, 16))
        e2    == TripleDESEncrypt(k, xor(data2, rc2))
    IN  reverse(data2) \o reverse(e2)

RECURSIVE MacChain(_, _, _)
\* the loop of GenMac: data1 after the chunks data[n..]
MacChain(k, data1, data) ==
    IF data = << >> THEN data1
    ELSE MacChain(k, TripleDESEncrypt(k, xor(data1, reverse(Head(data)))), Tail(data))

\* GenMac ranging over data[:len(data)-1]: the last chunk is left out
GenMac_SkipsLast(SK, RC, data) ==
    reverse(MacChain(ExpandKey(SK), reverse(SubSeq(RC, 1, 8)),
                     SubSeq(data, 1, Len(data) - 1)))

\* GenMac: the 8-byte MAC of the chunks under c.SK and c.RC
GenMac(SK, RC, data) ==
    reverse(MacChain(ExpandKey(SK), reverse(SubSeq(RC, 1, 8)), data))

\* A block is [Address |-> byte, Data |-> 16 bytes]
RECURSIVE ReadMacChunks_SkipMacA(_)
\* the second loop of GenReadMac with continue in place of break
ReadMacChunks_SkipMacA(blocks) ==
    IF blocks = << >> THEN << >>
    ELSE IF Head(blocks).Address = AddressMAC_A THEN ReadMacChunks_SkipMacA(Tail(blocks))
    ELSE << SubSeq(Head(blocks).Data, 1, 8), SubSeq(Head(blocks).Data, 9, 16) >>
         \o ReadMacChunks_SkipMacA(Tail(blocks))

RECURSIVE ReadMacChunks(_)
\* the second loop of GenReadMac: both halves of every block before MAC_A
ReadMacChunks(blocks) ==
    IF blocks = << >> \/ Head(blocks).Address = AddressMAC_A THEN << >>
    ELSE << SubSeq(Head(blocks).Data, 1, 8), SubSeq(Head(blocks).Data, 9, 16) >>
         \o ReadMacChunks(Tail(blocks))

\* a descriptor with room for a fifth pair of bytes
GenReadMacPanics_FiveFit(blocks) == Len(blocks) > 5

\* the first loop of GenReadMac writes data[0][2*i] and data[0][2*i+1] of an
\* [8]byte: with more than four blocks the index is out of range (a panic)
GenReadMacPanics(blocks) == Len(blocks) > 4

\* data[0] of GenReadMac
ReadMacDescriptor(blocks) ==
    [j \in 1..8 |->
        LET i == (j - 1) \div 2
        IN  IF i < Len(blocks)
            THEN (IF j % 2 = 1 THEN blocks[i + 1].Address ELSE 0)
            ELSE 255]

GenReadMacData(blocks) == << ReadMacDescriptor(blocks) >> \o ReadMacChunks(blocks)

GenReadMac(SK, RC, blocks) == GenMac(SK, RC, GenReadMacData(blocks))

\* the descriptor of GenWriteMac without wcnt[2]
GenWriteMacData_TwoCounterBytes(wcnt, block) ==
    << << wcnt[1], wcnt[2], 0, 0, block.Address, 0, 145, 0 >>,
       SubSeq(block.Data, 1, 8),
       SubSeq(block.Data, 9, 16) >>

GenWriteMacData(wcnt, block) ==
    << << wcnt[1], wcnt[2], wcnt[3], 0, block.Address, 0, 145, 0 >>,
       SubSeq(block.Data, 1, 8),
       SubSeq(block.Data, 9, 16) >>

GenWriteMac(SK, RC, wcnt, block) == GenMac(SK, RC, GenWriteMacData(wcnt, block))

(***************************************************************************)
(* package felica_pcsc: errors, command frames, status decoding            *)
(***************************************************************************)
ServiceRW == 9
ServiceRO == 11
DataTypeUID == 0
DataTypeCardType == 243

\* error values: kind "nil" is the nil error, "transport" the error that
\* Transmit returned; raw is the response an ErrUnknown carries (%x), msg
\* the prefix fmt.Errorf("...: %w") wraps the cause in ("" when not wrapped)
MkErr(kind, raw, msg) == [kind |-> kind, raw |-> raw, msg |-> msg]
NoErr            == MkErr("nil", << >>, "")
TransportErr     == MkErr("transport", << >>, "")
ErrNoResponse    == MkErr("ErrNoResponse", << >>, "")
ErrUnknown(resp) == MkErr("ErrUnknown", resp, "")
ErrMasterKeyNil  == MkErr("ErrMasterKeyNil", << >>, "")
ErrMacNotMatched == MkErr("ErrMacNotMatched", << >>, "")
\* fmt.Errorf with %v in place of %w: the cause is not wrapped
Wrap_NoCause(msg, err) == MkErr("error", << >>, msg)

\* fmt.Errorf(msg + ": %w", err)
Wrap(msg, err) == [err EXCEPT !.msg = msg]

\* a transport result is [err |-> Transmit failed, resp |-> the response];
\* SW1(resp) is resp[len(resp)-2] and SW2(resp) is resp[len(resp)-1]
SW1(resp) == resp[Len(resp) - 1]
SW2(resp) == resp[Len(resp)]

RECURSIVE Flatten(_)
Flatten(ss) == IF ss = << >> THEN << >> ELSE Head(ss) \o Flatten(Tail(ss))

GetDataCmd(dataType) == << 255, 202, dataType, 0, 0 >>

SetServiceCmd(service) ==
    << 255, 164, 0, 1, 2 >> \o << service % 256, (service \div 256) % 256 >>

ReadCmd(address) ==
    LET blockList == Flatten([i \in 1..Len(address) |-> << 128, address[i] >>])
    IN  << 255, 176, 128, Len(address) % 256, Len(blockList) % 256 >>
        \o blockList \o << 0 >>

WriteCmd(data) ==
    LET blockList == Flatten([i \in 1..Len(data) |-> << 128, data[i].Address >>])
        dataArr   == Flatten([i \in 1..Len(data) |-> data[i].Data])
    IN  << 255, 214, 128, Len(data) % 256, (Len(blockList) + Len(dataArr)) % 256 >>
        \o blockList \o dataArr \o << 0 >>

\* what a call returns: nil says the data returned is nil; data is the
\* blocks (Read, ReadWithMac) or the bytes (GetData) returned
\* panic says the call ended with a run-time panic instead of returning
MkRet(nil, data, err) == [nil |-> nil, data |-> data, err |-> err, panic |-> FALSE]
Panicked == [nil |-> TRUE, data |-> << >>, err |-> NoErr, panic |-> TRUE]

\* GetData: (resp[:len(resp)-2], nil), (nil, ErrNoResponse), (resp, ErrUnknown)
GetDataRet(tr) ==
    IF tr.err THEN MkRet(TRUE, << >>, TransportErr)
    ELSE IF SW1(tr.resp) = 144 /\ SW2(tr.resp) = 0
         THEN MkRet(FALSE, SubSeq(tr.resp, 1, Len(tr.resp) - 2), NoErr)
    ELSE IF SW1(tr.resp) = 100 /\ SW2(tr.resp) = 1
         THEN MkRet(TRUE, << >>, ErrNoResponse)
    ELSE MkRet(FALSE, tr.resp, ErrUnknown(tr.resp))

\* Read: the blocks cut from the response on success, (nil, err) otherwise
ReadRet(address, tr) ==
    IF tr.err THEN MkRet(TRUE, << >>, TransportErr)
    ELSE IF SW1(tr.resp) = 144 /\ SW2(tr.resp) = 0
         THEN MkRet(FALSE,
                    [i \in 1..Len(address) |->
                        [Address |-> address[i],
                         Data    |-> SubSeq(tr.resp, 16 * (i - 1) + 1, 16 * i)]],
                    NoErr)
    ELSE IF SW1(tr.resp) = 100 /\ SW2(tr.resp) = 1
         THEN MkRet(TRUE, << >>, ErrNoResponse)
    ELSE MkRet(TRUE, << >>, ErrUnknown(tr.resp))

\* Write without the status check: every answer counts as success
WriteRet_IgnoreStatus(tr) ==
    IF tr.err THEN MkRet(TRUE, << >>, TransportErr) ELSE MkRet(TRUE, << >>, NoErr)

\* Write returns the error alone
WriteRet(tr) ==
    IF tr.err THEN MkRet(TRUE, << >>, TransportErr)
    ELSE IF SW1(tr.resp) = 144 /\ SW2(tr.resp) = 0 THEN MkRet(TRUE, << >>, NoErr)
    ELSE IF SW1(tr.resp) = 100 /\ SW2(tr.resp) = 1
         THEN MkRet(TRUE, << >>, ErrNoResponse)
    ELSE MkRet(TRUE, << >>, ErrUnknown(tr.resp))

\* SetService looking at the first status byte alone
SetServiceRet_FirstByteOnly(tr) ==
    IF tr.err THEN MkRet(TRUE, << >>, TransportErr)
    ELSE IF SW1(tr.resp) = 144 THEN MkRet(TRUE, << >>, NoErr)
    ELSE IF SW1(tr.resp) = 100 THEN MkRet(TRUE, << >>, ErrNoResponse)
    ELSE MkRet(TRUE, << >>, ErrUnknown(tr.resp))

\* SetService returns the error alone
SetServiceRet(tr) ==
    IF tr.err THEN MkRet(TRUE, << >>, TransportErr)
    ELSE IF SW1(tr.resp) = 144 /\ SW2(tr.resp) = 0 THEN MkRet(TRUE, << >>, NoErr)
    ELSE IF SW1(tr.resp) = 100 /\ SW2(tr.resp) = 1
         THEN MkRet(TRUE, << >>, ErrNoResponse)
    ELSE MkRet(TRUE, << >>, ErrUnknown(tr.resp))

\* ReadWithMac returning nil in place of the blocks when the MAC differs
ReadWithMacRet_NilOnMismatch(SK, RC, r) ==
    IF r.err.kind # "nil" THEN MkRet(TRUE, << >>, r.err)
    ELSE IF GenReadMacPanics(r.data) THEN Panicked
    ELSE IF GenReadMac(SK, RC, r.data) = SubSeq(r.data[Len(r.data)].Data, 1, 8)
         THEN MkRet(FALSE, r.data, NoErr)
    ELSE MkRet(TRUE, << >>, ErrMacNotMatched)

\* ReadWithMac after its Read of append(address, AddressMAC_A) returned r
ReadWithMacRet(SK, RC, r) ==
    IF r.err.kind # "nil" THEN MkRet(TRUE, << >>, r.err)
    ELSE IF GenReadMacPanics(r.data) THEN Panicked
    ELSE IF GenReadMac(SK, RC, r.data) = SubSeq(r.data[Len(r.data)].Data, 1, 8)
         THEN MkRet(FALSE, r.data, NoErr)
    ELSE MkRet(FALSE, r.data, ErrMacNotMatched)

\* WriteWithMac taking the counter from resp[0].Data[1:4]
WriteWithMacBlocks_WcntOffByOne(SK, RC, resp, data) ==
    LET macRaw == GenWriteMac(SK, RC, SubSeq(resp[1].Data, 2, 4), data)
    IN  << data, [Address |-> AddressMAC_A, Data |-> macRaw \o Zeros(8)] >>

\* the blocks WriteWithMac hands to Write, resp being what ReadWithMac returned
WriteWithMacBlocks(SK, RC, resp, data) ==
    LET macRaw == GenWriteMac(SK, RC, SubSeq(resp[1].Data, 1, 3), data)
    IN  << data, [Address |-> AddressMAC_A, Data |-> macRaw \o Zeros(8)] >>

(***************************************************************************)
(* The caller's key provider (example/main.go) and the random source       *)
(***************************************************************************)
\* "xNhAMv2J4bAW86Nddq8WDizc"
ExampleMasterKey ==
    << 120, 78, 104, 65, 77, 118, 50, 74, 52, 98, 65, 87,
       56, 54, 78, 100, 100, 113, 56, 87, 68, 105, 122, 99 >>

\* the master key of a card issued by somebody else
ForeignMasterKey == [i \in 1..24 |-> (7 * i + 3) % 256]

\* masterKeyProvider: "nil" is the nil function, "example" the closure of main
Providers == { "nil", "example" }

\* masterKeyProvider(CKV): [found |-> FALSE] is the nil pointer
Lookup(p, CKV) ==
    IF p = "example" /\ CKV[1] = 0 /\ CKV[2] = 0
    THEN [found |-> TRUE, key |-> ExampleMasterKey]
    ELSE [found |-> FALSE, key |-> << >>]

\* rand.Read(c.RC[:]): an error, or 16 bytes
RandomChallenges ==
    { [i \in 1..16 |-> (16 * i + 5) % 256], [i \in 1..16 |-> (251 - 3 * i) % 256] }

(***************************************************************************)
(* The card behind the transport.  It keeps the RC register, the write     *)
(* counter, its own card key and the session key it derives when RC is     *)
(* written; it answers a read of MAC_A with the MAC of the blocks of that  *)
(* read under its session key, and accepts a                               *)
(* write that carries a MAC_A block only if that MAC is the write MAC.     *)
(* The transport may fail, the card may answer with an error status, and   *)
(* a successful read may come back with one byte altered.                  *)
(***************************************************************************)
CardID1 == [i \in 1..16 |-> i]
CardID2 == [i \in 1..16 |-> (200 + 3 * i) % 256]

\* a card that has been written to before: its write counter reads 2, 1, 0
MkCard(ID, CKV, mk) ==
    LET CK == GenCardKey(mk, ID)
    IN  [ID |-> ID, CKV |-> CKV, CK |-> CK, RC |-> Zeros(16),
         SK |-> GenSessionKey(CK, Zeros(16)), WCNT |-> 256 + 2]

Cards ==
    { MkCard(CardID1, << 0, 0 >>, ExampleMasterKey),
      MkCard(CardID2, << 0, 0 >>, ForeignMasterKey),
      MkCard(CardID1, << 1, 0 >>, ExampleMasterKey) }

WcntBytes(w) == << w % 256, (w \div 256) % 256, (w \div 65536) % 256 >>

CardBlockData(cd, a) ==
    CASE a = AddressID   -> cd.ID
      [] a = AddressCKV  -> cd.CKV \o Zeros(14)
      [] a = AddressWCNT -> WcntBytes(cd.WCNT) \o Zeros(13)
      [] a = AddressRC   -> Zeros(16)
      [] OTHER           -> [i \in 1..16 |-> (a + 17 * i) % 256]

CardReadBlocks(cd, address) ==
    LET plain == [i \in 1..Len(address) |->
                    [Address |-> address[i],
                     Data    |-> IF address[i] = AddressMAC_A THEN Zeros(16)
                                 ELSE CardBlockData(cd, address[i])]]
        mac   == IF Len(address) > 4 THEN Zeros(8)
                 ELSE GenReadMac(cd.SK, cd.RC, plain)
    IN  [i \in 1..Len(address) |->
            IF address[i] = AddressMAC_A
            THEN [Address |-> AddressMAC_A, Data |-> mac \o Zeros(8)]
            ELSE plain[i]]

CardReadPayload(cd, address) ==
    LET blocks == CardReadBlocks(cd, address)
    IN  Flatten([i \in 1..Len(blocks) |-> blocks[i].Data])

\* the positions at which a returned payload of n blocks may be altered
TamperPositions(n) == { 1, 19, 16 * (n - 1) + 1, 16 * n } \cap (1..(16 * n))

Tamper(payload, pos) == [payload EXCEPT ![pos] = Xor8(payload[pos], 1)]

SW_OK == << 144, 0 >>
FailStatuses == { << 100, 1 >>, << 144, 1 >>, << 100, 0 >> }

TransportFailure == [err |-> TRUE, resp |-> << >>]
Answer(resp) == [err |-> FALSE, resp |-> resp]
Failures == { TransportFailure } \cup { Answer(sw) : sw \in FailStatuses }

SetServiceResponses == Failures \cup { Answer(SW_OK) }

GetDataResponses == Failures \cup { Answer(<< 4 >> \o SW_OK) }

ReadResponses(cd, address) ==
    LET honest == CardReadPayload(cd, address)
    IN  Failures
        \cup { Answer(honest \o SW_OK) }
        \cup { Answer(Tamper(honest, pos) \o SW_OK) :
                 pos \in TamperPositions(Len(address)) }

WriteAccepted(cd, data) ==
    IF Len(data) = 2 /\ data[2].Address = AddressMAC_A
    THEN SubSeq(data[2].Data, 1, 8)
           = GenWriteMac(cd.SK, cd.RC, WcntBytes(cd.WCNT), data[1])
    ELSE TRUE

WriteResponses(cd, data) ==
    Failures \cup (IF WriteAccepted(cd, data) THEN { Answer(SW_OK) } ELSE { })

\* the card after it answered a write with success
CardAfterWrite(cd, data) ==
    LET withRC == IF data[1].Address = AddressRC
                  THEN [cd EXCEPT !.RC = data[1].Data,
                                  !.SK = GenSessionKey(cd.CK, data[1].Data)]
                  ELSE cd
    IN  IF Len(data) = 2 /\ data[2].Address = AddressMAC_A
        THEN [withRC EXCEPT !.WCNT = cd.WCNT + 1]
        ELSE withRC

(***************************************************************************)
(* State                                                                   *)
(***************************************************************************)
VARIABLES
    pc,        \* where NewCard stands, then how the session ended
    c,         \* the session object: its ID, RC, CK and SK
    provider,  \* the masterKeyProvider NewCard was given
    resp,      \* NewCard's local resp: the blocks of its three-block read
    card,      \* the card
    op,        \* the call in progress or the last one: its name and argument
    log,       \* the transport exchanges of that call, in order
    ret,       \* what that call returned
    lookups,   \* the tags masterKeyProvider was called with in this session
    crypto,    \* the derivations that call performed, in order
    calls,     \* the number of calls made so far
    draws,     \* the number of buffers rand.Read has filled so far
    sessions,  \* the NewCard calls that run side by side, each with its card
    args       \* the buffers that call was handed by reference, as they are now

vars == << pc, c, provider, resp, card, op, log, ret, lookups, crypto, calls, args, draws,
          sessions >>

\* the number of calls of a run
MaxCalls == 3

\* NewCard is running
InNewCard == { "ServiceSelected", "ChallengeIssued", "IdentityRead" }
\* NewCard returned a session
Returned == { "Authenticated", "AuthenticationFailed", "MasterKeyNotFound", "Unverified" }

ZeroSession == [ID |-> Zeros(16), RC |-> Zeros(16), CK |-> Zeros(16), SK |-> Zeros(16)]

Exchange(cmd, tr) == [cmd |-> cmd, tr |-> tr]

ReadAddressLists ==
    { << AddressWCNT >>,
      << AddressS_PAD0, AddressS_PAD1 >>,
      << AddressS_PAD0, AddressS_PAD1, AddressS_PAD2 >>,
      << AddressS_PAD0, AddressS_PAD1, AddressS_PAD2, AddressS_PAD3 >> }

WriteBlocks ==
    { [Address |-> AddressS_PAD0, Data |-> [i \in 1..16 |-> (3 * i) % 256]],
      [Address |-> AddressS_PAD1, Data |-> [i \in 1..16 |-> (255 - i) % 256]] }

NoOp == [name |-> "none", arg |-> << >>]

\* no call is in progress and the caller holds no result of an earlier one
CanCall == op = NoOp

Init ==
    /\ pc = "Unauthenticated"
    /\ c = ZeroSession
    /\ provider = "nil"
    /\ resp = << >>
    /\ card \in Cards
    /\ op = NoOp
    /\ log = << >>
    /\ ret = MkRet(TRUE, << >>, NoErr)
    /\ lookups = << >>
    /\ crypto = << >>
    /\ calls = 0
    /\ args = << >>
    /\ draws = 0
    /\ sessions = << >>

(***************************************************************************)
(* NewCard, one action per transport exchange, then the verification       *)
(***************************************************************************)
\* c := FeliCaLiteS{Card: card}; err := c.SetService(felica.ServiceRW)
NewCard_SetService ==
    /\ CanCall
    /\ calls < MaxCalls
    /\ \E p \in Providers, tr \in SetServiceResponses :
         LET r == SetServiceRet(tr)
         IN  /\ provider' = p
             /\ c' = ZeroSession
             /\ log' = << Exchange(SetServiceCmd(ServiceRW), tr) >>
             /\ IF r.err.kind = "nil"
                THEN /\ pc' = "ServiceSelected"
                     /\ ret' = MkRet(TRUE, << >>, NoErr)
                ELSE /\ pc' = "Aborted"
                     /\ ret' = MkRet(TRUE, << >>, Wrap("failed to set service", r.err))
    /\ op' = [name |-> "NewCard", arg |-> << >>]
    /\ resp' = << >>
    /\ lookups' = << >>
    /\ crypto' = << >>
    /\ calls' = calls + 1
    /\ UNCHANGED << card, args, draws, sessions >>

\* NewCard sending the challenge the card still holds from the session
\* before, when there was one, and calling rand.Read only otherwise
NewCard_WriteRC_Reuse ==
    /\ pc = "ServiceSelected"
    /\ \E drawn \in RandomChallenges :
         LET reuse == card.RC # Zeros(16)
             rc    == IF reuse THEN card.RC ELSE drawn
             data  == << [Address |-> 128, Data |-> rc] >>
         IN  \E tr \in WriteResponses(card, data) :
               LET r == WriteRet(tr)
               IN  /\ c' = [c EXCEPT !.RC = rc]
                   /\ draws' = IF reuse THEN draws ELSE draws + 1
                   /\ log' = Append(log, Exchange(WriteCmd(data), tr))
                   /\ IF r.err.kind = "nil"
                      THEN /\ pc' = "ChallengeIssued"
                           /\ card' = CardAfterWrite(card, data)
                           /\ UNCHANGED ret
                      ELSE /\ pc' = "Aborted"
                           /\ ret' = MkRet(TRUE, << >>, Wrap("failed to write RC", r.err))
                           /\ UNCHANGED card
    /\ UNCHANGED << provider, resp, op, lookups, crypto, calls, args, sessions >>

\* rand.Read(c.RC[:]), then c.Write of the block {0x80, c.RC}
NewCard_WriteRC ==
    /\ pc = "ServiceSelected"
    /\ \/ \* rand.Read failed
          /\ pc' = "Aborted"
          /\ ret' = MkRet(TRUE, << >>, Wrap("failed to generate RC", MkErr("rand", << >>, "")))
          /\ UNCHANGED << c, log, card, draws >>
       \/ \E rc \in RandomChallenges :
            LET data == << [Address |-> 128, Data |-> rc] >>
            IN  \E tr \in WriteResponses(card, data) :
                  LET r == WriteRet(tr)
                  IN  /\ c' = [c EXCEPT !.RC = rc]
                      /\ draws' = draws + 1
                      /\ log' = Append(log, Exchange(WriteCmd(data), tr))
                      /\ IF r.err.kind = "nil"
                         THEN /\ pc' = "ChallengeIssued"
                              /\ card' = CardAfterWrite(card, data)
                              /\ UNCHANGED ret
                         ELSE /\ pc' = "Aborted"
                              /\ ret' = MkRet(TRUE, << >>, Wrap("failed to write RC", r.err))
                              /\ UNCHANGED card
    /\ UNCHANGED << provider, resp, op, lookups, crypto, calls, args, sessions >>

\* resp, err := c.Read({ID, CKV, MAC_A}); c.ID = resp[0].Data
NewCard_ReadID ==
    /\ pc = "ChallengeIssued"
    /\ LET address == << AddressID, AddressCKV, AddressMAC_A >>
       IN  \E tr \in ReadResponses(card, address) :
             LET r == ReadRet(address, tr)
             IN  /\ log' = Append(log, Exchange(ReadCmd(address), tr))
                 /\ IF r.err.kind = "nil"
                    THEN /\ pc' = "IdentityRead"
                         /\ resp' = r.data
                         /\ c' = [c EXCEPT !.ID = r.data[1].Data]
                         /\ UNCHANGED ret
                    ELSE /\ pc' = "Aborted"
                         /\ ret' = MkRet(TRUE, << >>, Wrap("failed to read ID", r.err))
                         /\ UNCHANGED << resp, c >>
    /\ UNCHANGED << provider, card, op, lookups, crypto, calls, args, draws, sessions >>

\* GenSessionKey called before GenCardKey: SK comes from the CK of before
WithKeys_Swapped(s, masterKey) ==
    [s EXCEPT !.SK = GenSessionKey(s.CK, s.RC), !.CK = GenCardKey(masterKey, s.ID)]

\* the session fields after GenCardKey and GenSessionKey
WithKeys(s, masterKey) ==
    LET CK == GenCardKey(masterKey, s.ID)
    IN  [s EXCEPT !.CK = CK, !.SK = GenSessionKey(CK, s.RC)]

\* NewCard deriving the keys from a zero key before it reports the missing one
NewCardVerify_DeriveAnyway(s, p, blocks) ==
    IF p = "nil"
    THEN [pc |-> "Unverified", c |-> s, ret |-> MkRet(FALSE, << >>, NoErr),
          lookups |-> << >>, crypto |-> << >>]
    ELSE LET CKV == SubSeq(blocks[2].Data, 1, 2)
             mk  == Lookup(p, CKV)
             k   == WithKeys(s, IF mk.found THEN mk.key ELSE Zeros(24))
             mac == GenReadMac(k.SK, k.RC, blocks)
         IN  [pc |-> IF ~ mk.found THEN "MasterKeyNotFound"
                     ELSE IF mac # SubSeq(blocks[3].Data, 1, 8)
                     THEN "AuthenticationFailed" ELSE "Authenticated",
              c |-> k,
              ret |-> MkRet(FALSE, << >>,
                            IF ~ mk.found THEN ErrMasterKeyNil
                            ELSE IF mac # SubSeq(blocks[3].Data, 1, 8)
                            THEN ErrMacNotMatched ELSE NoErr),
              lookups |-> << CKV >>,
              crypto |-> << "GenCardKey", "GenSessionKey", "GenReadMac" >>]

\* NewCard with the MAC comparison inverted (== in place of !=)
NewCardVerify_Inverted(s, p, blocks) ==
    IF p = "nil"
    THEN [pc |-> "Unverified", c |-> s, ret |-> MkRet(FALSE, << >>, NoErr),
          lookups |-> << >>, crypto |-> << >>]
    ELSE LET CKV == SubSeq(blocks[2].Data, 1, 2)
             mk  == Lookup(p, CKV)
         IN  IF ~ mk.found
             THEN [pc |-> "MasterKeyNotFound", c |-> s,
                   ret |-> MkRet(FALSE, << >>, ErrMasterKeyNil),
                   lookups |-> << CKV >>, crypto |-> << >>]
             ELSE LET k   == WithKeys(s, mk.key)
                      mac == GenReadMac(k.SK, k.RC, blocks)
                  IN  IF mac = SubSeq(blocks[3].Data, 1, 8)
                      THEN [pc |-> "AuthenticationFailed", c |-> k,
                            ret |-> MkRet(FALSE, << >>, ErrMacNotMatched),
                            lookups |-> << CKV >>,
                            crypto |-> << "GenCardKey", "GenSessionKey", "GenReadMac" >>]
                      ELSE [pc |-> "Authenticated", c |-> k,
                            ret |-> MkRet(FALSE, << >>, NoErr),
                            lookups |-> << CKV >>,
                            crypto |-> << "GenCardKey", "GenSessionKey", "GenReadMac" >>]

\* NewCard handing the provider bytes 1 and 2 of the CKV block, not 0 and 1
NewCardVerify_WrongTag(s, p, blocks) ==
    IF p = "nil"
    THEN [pc |-> "Unverified", c |-> s, ret |-> MkRet(FALSE, << >>, NoErr),
          lookups |-> << >>, crypto |-> << >>]
    ELSE LET CKV == SubSeq(blocks[2].Data, 2, 3)
             mk  == Lookup(p, CKV)
             k   == IF mk.found THEN WithKeys(s, mk.key) ELSE s
             bad == mk.found /\ GenReadMac(k.SK, k.RC, blocks) # SubSeq(blocks[3].Data, 1, 8)
         IN  [pc |-> IF ~ mk.found THEN "MasterKeyNotFound"
                     ELSE IF bad THEN "AuthenticationFailed" ELSE "Authenticated",
              c |-> k,
              ret |-> MkRet(FALSE, << >>,
                            IF ~ mk.found THEN ErrMasterKeyNil
                            ELSE IF bad THEN ErrMacNotMatched ELSE NoErr),
              lookups |-> << CKV >>,
              crypto |-> IF mk.found
                         THEN << "GenCardKey", "GenSessionKey", "GenReadMac" >>
                         ELSE << >>]

\* if masterKeyProvider != nil { ... }; return &c, nil: how NewCard ends
\* for the session s, the provider p and the blocks read
NewCardVerify(s, p, blocks) ==
    IF p = "nil"
    THEN [pc |-> "Unverified", c |-> s, ret |-> MkRet(FALSE, << >>, NoErr),
          lookups |-> << >>, crypto |-> << >>]
    ELSE LET CKV == SubSeq(blocks[2].Data, 1, 2)
             mk  == Lookup(p, CKV)
         IN  IF ~ mk.found
             THEN [pc |-> "MasterKeyNotFound", c |-> s,
                   ret |-> MkRet(FALSE, << >>, ErrMasterKeyNil),
                   lookups |-> << CKV >>, crypto |-> << >>]
             ELSE LET k   == WithKeys(s, mk.key)
                      mac == GenReadMac(k.SK, k.RC, blocks)
                  IN  IF mac # SubSeq(blocks[3].Data, 1, 8)
                      THEN [pc |-> "AuthenticationFailed", c |-> k,
                            ret |-> MkRet(FALSE, << >>, ErrMacNotMatched),
                            lookups |-> << CKV >>,
                            crypto |-> << "GenCardKey", "GenSessionKey", "GenReadMac" >>]
                      ELSE [pc |-> "Authenticated", c |-> k,
                            ret |-> MkRet(FALSE, << >>, NoErr),
                            lookups |-> << CKV >>,
                            crypto |-> << "GenCardKey", "GenSessionKey", "GenReadMac" >>]

NewCard_Verify ==
    /\ pc = "IdentityRead"
    /\ LET v == NewCardVerify(c, provider, resp)
       IN  /\ pc' = v.pc
           /\ c' = v.c
           /\ ret' = v.ret
           /\ lookups' = lookups \o v.lookups
           /\ crypto' = v.crypto
    /\ UNCHANGED << provider, resp, card, op, log, calls, args, draws, sessions >>

(***************************************************************************)
(* The calls on a session NewCard returned, and GetData on the card        *)
(***************************************************************************)
GetData ==
    /\ CanCall
    /\ calls < MaxCalls
    /\ \E dataType \in { DataTypeUID, DataTypeCardType }, tr \in GetDataResponses :
         /\ op' = [name |-> "GetData", arg |-> << dataType >>]
         /\ log' = << Exchange(GetDataCmd(dataType), tr) >>
         /\ ret' = GetDataRet(tr)
    /\ crypto' = << >>
    /\ calls' = calls + 1
    /\ UNCHANGED << pc, c, provider, resp, card, lookups, args, draws, sessions >>

\* SetService sending its command again after a no-response status
SetService_Retry ==
    /\ CanCall
    /\ pc \in Returned
    /\ calls < MaxCalls
    /\ \E service \in { ServiceRW, ServiceRO }, tr \in SetServiceResponses :
         /\ op' = [name |-> "SetService", arg |-> << service >>]
         /\ IF SetServiceRet(tr).err.kind = "ErrNoResponse"
            THEN \E tr2 \in SetServiceResponses :
                   /\ log' = << Exchange(SetServiceCmd(service), tr),
                                Exchange(SetServiceCmd(service), tr2) >>
                   /\ ret' = SetServiceRet(tr2)
            ELSE /\ log' = << Exchange(SetServiceCmd(service), tr) >>
                 /\ ret' = SetServiceRet(tr)
    /\ crypto' = << >>
    /\ calls' = calls + 1
    /\ UNCHANGED << pc, c, provider, resp, card, lookups, args, draws, sessions >>

SetService ==
    /\ CanCall
    /\ pc \in Returned
    /\ calls < MaxCalls
    /\ \E service \in { ServiceRW, ServiceRO }, tr \in SetServiceResponses :
         /\ op' = [name |-> "SetService", arg |-> << service >>]
         /\ log' = << Exchange(SetServiceCmd(service), tr) >>
         /\ ret' = SetServiceRet(tr)
    /\ crypto' = << >>
    /\ calls' = calls + 1
    /\ UNCHANGED << pc, c, provider, resp, card, lookups, args, draws, sessions >>

Read ==
    /\ CanCall
    /\ pc \in Returned
    /\ calls < MaxCalls
    /\ \E address \in ReadAddressLists :
         \E tr \in ReadResponses(card, address) :
           /\ op' = [name |-> "Read", arg |-> address]
           /\ log' = << Exchange(ReadCmd(address), tr) >>
           /\ ret' = ReadRet(address, tr)
    /\ crypto' = << >>
    /\ calls' = calls + 1
    /\ UNCHANGED << pc, c, provider, resp, card, lookups, args, draws, sessions >>

ReadWithMac ==
    /\ CanCall
    /\ pc \in Returned
    /\ calls < MaxCalls
    /\ \E address \in ReadAddressLists :
         LET all == Append(address, AddressMAC_A)
         IN  \E tr \in ReadResponses(card, all) :
               LET r == ReadRet(all, tr)
               IN  /\ op' = [name |-> "ReadWithMac", arg |-> address]
                   /\ log' = << Exchange(ReadCmd(all), tr) >>
                   /\ ret' = ReadWithMacRet(c.SK, c.RC, r)
                   /\ crypto' = IF r.err.kind = "nil" THEN << "GenReadMac" >> ELSE << >>
    /\ calls' = calls + 1
    /\ UNCHANGED << pc, c, provider, resp, card, lookups, args, draws, sessions >>

Write ==
    /\ CanCall
    /\ pc \in Returned
    /\ calls < MaxCalls
    /\ \E block \in WriteBlocks :
         \E tr \in WriteResponses(card, << block >>) :
           LET r == WriteRet(tr)
           IN  /\ op' = [name |-> "Write", arg |-> << block >>]
               /\ log' = << Exchange(WriteCmd(<< block >>), tr) >>
               /\ ret' = r
               /\ card' = IF r.err.kind = "nil"
                          THEN CardAfterWrite(card, << block >>) ELSE card
    /\ crypto' = << >>
    /\ calls' = calls + 1
    /\ UNCHANGED << pc, c, provider, resp, lookups, args, draws, sessions >>

\* WriteWithMac going on whenever ReadWithMac returned blocks
WriteWithMacGoesOn_IfBlocks(r) == ~ r.nil

\* if err != nil { return err } after ReadWithMac returned r
WriteWithMacGoesOn(r) == r.err.kind = "nil"

WriteWithMac ==
    /\ CanCall
    /\ pc \in Returned
    /\ calls < MaxCalls
    /\ \E data \in WriteBlocks :
         LET all == << AddressWCNT, AddressMAC_A >>
         IN  \E tr1 \in ReadResponses(card, all) :
               LET r1 == ReadWithMacRet(c.SK, c.RC, ReadRet(all, tr1))
                   ex1 == Exchange(ReadCmd(all), tr1)
               IN  /\ op' = [name |-> "WriteWithMac", arg |-> << data >>]
                   /\ IF ~ WriteWithMacGoesOn(r1)
                      THEN /\ log' = << ex1 >>
                           /\ ret' = MkRet(TRUE, << >>, r1.err)
                           /\ crypto' = IF r1.nil THEN << >> ELSE << "GenReadMac" >>
                           /\ UNCHANGED card
                      ELSE LET blocks == WriteWithMacBlocks(c.SK, c.RC, r1.data, data)
                           IN  \E tr2 \in WriteResponses(card, blocks) :
                                 LET r2 == WriteRet(tr2)
                                 IN  /\ log' = << ex1, Exchange(WriteCmd(blocks), tr2) >>
                                     /\ ret' = r2
                                     /\ crypto' = << "GenReadMac", "GenWriteMac" >>
                                     /\ card' = IF r2.err.kind = "nil"
                                                THEN CardAfterWrite(card, blocks)
                                                ELSE card
    /\ calls' = calls + 1
    /\ UNCHANGED << pc, c, provider, resp, lookups, args, draws, sessions >>

\* the caller is done with what the last call returned
Discard ==
    /\ op # NoOp
    /\ pc \notin InNewCard
    /\ op' = NoOp
    /\ log' = << >>
    /\ ret' = MkRet(TRUE, << >>, NoErr)
    /\ crypto' = << >>
    /\ args' = << >>
    /\ UNCHANGED << pc, c, provider, resp, card, lookups, calls, draws, sessions >>

Next ==
    \/ NewCard_SetService
    \/ NewCard_WriteRC
    \/ NewCard_ReadID
    \/ NewCard_Verify
    \/ GetData
    \/ SetService
    \/ Read
    \/ ReadWithMac
    \/ Write
    \/ WriteWithMac
    \/ Discard

Spec == Init /\ [][Next]_vars

(***************************************************************************)
(* package felica on its own: the exported methods of FeliCaLiteS called   *)
(* on a struct whose fields the caller filled in.  Here crypto holds the   *)
(* chunks each GenMac call was handed, and args the caller's buffers       *)
(* (master key, chunks, blocks) as the call left them.                     *)
(***************************************************************************)
\* a master key that differs from the example's in its third byte
TwinMasterKey == [ExampleMasterKey EXCEPT ![3] = 0]

\* the encryption of the zero block has its top bit set under the example's
\* key and its twin, clear under the foreign key
MasterKeys == { ExampleMasterKey, ForeignMasterKey, TwinMasterKey }

FelicaIDs == { CardID1, CardID2 }

\* challenges: two unrelated ones, and ones that differ from the first in
\* one bit of the first half, in one bit of the second half
FelicaRCs ==
    LET rc == [i \in 1..16 |-> (16 * i + 5) % 256]
    IN  { rc,
          [i \in 1..16 |-> (251 - 3 * i) % 256],
          [rc EXCEPT ![3] = Xor8(rc[3], 64)],
          [rc EXCEPT ![16] = Xor8(rc[16], 1)] }

FelicaKeys == { Zeros(16), [i \in 1..16 |-> (11 * i + 7) % 256] }

ChunkA == [i \in 1..8 |-> (17 * i) % 256]
ChunkB == [i \in 1..8 |-> (255 - 9 * i) % 256]

\* the chunk lists handed to GenMac
ChunkLists ==
    { << >>, << ChunkA >>, << ChunkA, ChunkB >>, << ChunkB, ChunkA >>,
      << ChunkA, ChunkB, ChunkA >> }

MkBlock(a) == [Address |-> a, Data |-> [i \in 1..16 |-> (a + 13 * i) % 256]]

\* the block lists handed to GenReadMac: with MAC_A last, in the middle and
\* absent, of every length up to five
BlockLists ==
    { << >>,
      << MkBlock(AddressS_PAD0), MkBlock(AddressMAC_A) >>,
      << MkBlock(AddressID), MkBlock(AddressCKV), MkBlock(AddressMAC_A) >>,
      << MkBlock(AddressS_PAD0), MkBlock(AddressMAC_A), MkBlock(AddressS_PAD1) >>,
      << MkBlock(AddressMAC_A), MkBlock(AddressS_PAD2) >>,
      << MkBlock(AddressS_PAD0), MkBlock(AddressS_PAD1), MkBlock(AddressS_PAD2),
         MkBlock(AddressS_PAD3) >>,
      << MkBlock(AddressS_PAD1), MkBlock(AddressS_PAD0), MkBlock(AddressS_PAD2),
         MkBlock(AddressMAC_A) >>,
      << MkBlock(AddressS_PAD0), MkBlock(AddressS_PAD1), MkBlock(AddressS_PAD2),
         MkBlock(AddressS_PAD3), MkBlock(AddressMAC_A) >> }

WriteCounters == { << 2, 1, 0 >>, << 3, 1, 0 >> }

\* GenCardKey with ID := c.ID[:], a slice of the field and not a copy of it
GenCardKeyCall_AliasID(s, masterKey) ==
    LET L   == ShiftL(TripleDESEncrypt(masterKey, Zeros(8)))
        M1f == [SubSeq(s.ID, 1, 8) EXCEPT ![1] = Xor8(s.ID[1], 128)]
        M2  == xor(SubSeq(s.ID, 9, 16), L)
    IN  [c |-> [s EXCEPT !.CK = GenCardKey(masterKey, s.ID), !.ID = M1f \o M2],
         masterKey |-> masterKey]

\* c.GenCardKey(masterKey): the struct and the master key buffer afterwards.
\* ID := c.ID copies the array, so the xor into M2 and the flip of M1[0]
\* touch the copy; the key is only read
GenCardKeyCall(s, masterKey) ==
    [c |-> [s EXCEPT !.CK = GenCardKey(masterKey, s.ID)], masterKey |-> masterKey]

\* c.GenSessionKey(): the struct afterwards.  ck := c.CK and rc := c.RC copy
\* the arrays, so the reversals touch the copies
GenSessionKeyCall(s) == [s EXCEPT !.SK = GenSessionKey(s.CK, s.RC)]

\* GenMac with sk := c.SK[:], a slice of the field: reverse(sk) reverses c.SK
GenMacCall_AliasSK(s, data) ==
    [mac |-> GenMac(s.SK, s.RC, data), c |-> [s EXCEPT !.SK = reverse(s.SK)],
     data |-> data]

\* GenMac reversing data[i] itself, not the copy v
GenMacCall_InPlace(s, data) ==
    [mac |-> GenMac(s.SK, s.RC, data), c |-> s,
     data |-> [i \in 1..Len(data) |-> reverse(data[i])]]

\* c.GenMac(data): the MAC, the struct and the caller's chunks afterwards.
\* sk := c.SK, rc := c.RC and the range variable v are copies
GenMacCall(s, data) ==
    [mac |-> GenMac(s.SK, s.RC, data), c |-> s, data |-> data]

GenMacRecord(data) == [fn |-> "GenMac", data |-> data]

FelicaInit ==
    /\ pc = "Unauthenticated"
    /\ c \in [ID : FelicaIDs, RC : FelicaRCs, CK : FelicaKeys, SK : FelicaKeys]
    /\ provider = "nil"
    /\ resp = << >>
    /\ card = MkCard(CardID1, << 0, 0 >>, ExampleMasterKey)
    /\ op = NoOp
    /\ log = << >>
    /\ ret = MkRet(TRUE, << >>, NoErr)
    /\ lookups = << >>
    /\ crypto = << >>
    /\ calls = 0
    /\ args = << >>
    /\ draws = 0
    /\ sessions = << >>

FeliCaLiteS_GenCardKey ==
    /\ calls < MaxCalls
    /\ \E masterKey \in MasterKeys :
         LET r == GenCardKeyCall(c, masterKey)
         IN  /\ c' = r.c
             /\ args' = << r.masterKey >>
             /\ op' = [name |-> "GenCardKey", arg |-> << masterKey >>]
    /\ ret' = MkRet(TRUE, << >>, NoErr)
    /\ crypto' = << >>
    /\ calls' = calls + 1
    /\ UNCHANGED << pc, provider, resp, card, log, lookups, draws, sessions >>

FeliCaLiteS_GenSessionKey ==
    /\ calls < MaxCalls
    /\ c' = GenSessionKeyCall(c)
    /\ args' = << >>
    /\ op' = [name |-> "GenSessionKey", arg |-> << >>]
    /\ ret' = MkRet(TRUE, << >>, NoErr)
    /\ crypto' = << >>
    /\ calls' = calls + 1
    /\ UNCHANGED << pc, provider, resp, card, log, lookups, draws, sessions >>

FeliCaLiteS_GenMac ==
    /\ calls < MaxCalls
    /\ \E data \in ChunkLists :
         LET r == GenMacCall(c, data)
         IN  /\ c' = r.c
             /\ args' = << r.data >>
             /\ ret' = MkRet(FALSE, r.mac, NoErr)
             /\ op' = [name |-> "GenMac", arg |-> << data >>]
             /\ crypto' = << GenMacRecord(data) >>
    /\ calls' = calls + 1
    /\ UNCHANGED << pc, provider, resp, card, log, lookups, draws, sessions >>

FeliCaLiteS_GenReadMac ==
    /\ calls < MaxCalls
    /\ \E blocks \in BlockLists :
         /\ op' = [name |-> "GenReadMac", arg |-> << blocks >>]
         /\ args' = << blocks >>
         /\ IF GenReadMacPanics(blocks)
            THEN /\ ret' = Panicked
                 /\ crypto' = << >>
                 /\ UNCHANGED c
            ELSE LET data == GenReadMacData(blocks)
                     r    == GenMacCall(c, data)
                 IN  /\ c' = r.c
                     /\ ret' = MkRet(FALSE, r.mac, NoErr)
                     /\ crypto' = << GenMacRecord(data) >>
    /\ calls' = calls + 1
    /\ UNCHANGED << pc, provider, resp, card, log, lookups, draws, sessions >>

FeliCaLiteS_GenWriteMac ==
    /\ calls < MaxCalls
    /\ \E wcnt \in WriteCounters, block \in WriteBlocks :
         LET data == GenWriteMacData(wcnt, block)
             r    == GenMacCall(c, data)
         IN  /\ op' = [name |-> "GenWriteMac", arg |-> << wcnt, block >>]
             /\ args' = << wcnt, block >>
             /\ c' = r.c
             /\ ret' = MkRet(FALSE, r.mac, NoErr)
             /\ crypto' = << GenMacRecord(data) >>
    /\ calls' = calls + 1
    /\ UNCHANGED << pc, provider, resp, card, log, lookups, draws, sessions >>

FelicaNext ==
    \/ FeliCaLiteS_GenCardKey
    \/ FeliCaLiteS_GenSessionKey
    \/ FeliCaLiteS_GenMac
    \/ FeliCaLiteS_GenReadMac
    \/ FeliCaLiteS_GenWriteMac

FelicaSpec == FelicaInit /\ [][FelicaNext]_vars

(***************************************************************************)
(* The session NewCard returned embeds felica.FeliCaLiteS, so the caller   *)
(* can also call GenMac, GenReadMac and GenWriteMac on it directly.        *)
(***************************************************************************)
Session_GenMac == CanCall /\ pc \in Returned /\ FeliCaLiteS_GenMac

Session_GenReadMac == CanCall /\ pc \in Returned /\ FeliCaLiteS_GenReadMac

Session_GenWriteMac == CanCall /\ pc \in Returned /\ FeliCaLiteS_GenWriteMac

SessionNext ==
    \/ NewCard_SetService
    \/ NewCard_WriteRC
    \/ NewCard_ReadID
    \/ NewCard_Verify
    \/ GetData
    \/ SetService
    \/ Read
    \/ ReadWithMac
    \/ Write
    \/ WriteWithMac
    \/ Session_GenMac
    \/ Session_GenReadMac
    \/ Session_GenWriteMac
    \/ Discard

SessionSpec == Init /\ [][SessionNext]_vars

(***************************************************************************)
(* Two NewCard calls side by side, each on its own card.  A call is a      *)
(* record of what the single-session variables hold for one call: c is the *)
(* local struct of NewCard, card the card its transport leads to.  The     *)
(* calls take turns between transport exchanges.                           *)
(***************************************************************************)
\* the two cards: both genuine, with different IDs
ParCards ==
    << MkCard(CardID1, << 0, 0 >>, ExampleMasterKey),
       MkCard(CardID2, << 0, 0 >>, ExampleMasterKey) >>

\* a call that has not started; n counts the steps it has taken
NewSession(cd) ==
    [pc |-> "Unauthenticated", c |-> ZeroSession, provider |-> "nil",
     resp |-> << >>, log |-> << >>, ret |-> MkRet(TRUE, << >>, NoErr),
     lookups |-> << >>, crypto |-> << >>, card |-> cd, n |-> 0]

\* NewCard up to the return of SetService, with the provider p
SetServiceStep(s, p, tr) ==
    LET r == SetServiceRet(tr)
    IN  [s EXCEPT !.provider = p,
                  !.c = ZeroSession,
                  !.log = << Exchange(SetServiceCmd(ServiceRW), tr) >>,
                  !.pc = IF r.err.kind = "nil" THEN "ServiceSelected" ELSE "Aborted",
                  !.ret = IF r.err.kind = "nil" THEN MkRet(TRUE, << >>, NoErr)
                          ELSE MkRet(TRUE, << >>, Wrap("failed to set service", r.err)),
                  !.n = 1]

\* rand.Read failed
RandFailedStep(s) ==
    [s EXCEPT !.pc = "Aborted",
              !.ret = MkRet(TRUE, << >>,
                            Wrap("failed to generate RC", MkErr("rand", << >>, ""))),
              !.n = 2]

\* rand.Read filled c.RC with rc; the write of block 0x80 came back with tr
WriteRCStep(s, rc, tr) ==
    LET data == << [Address |-> 128, Data |-> rc] >>
        r    == WriteRet(tr)
    IN  [s EXCEPT !.c = [s.c EXCEPT !.RC = rc],
                  !.log = Append(s.log, Exchange(WriteCmd(data), tr)),
                  !.pc = IF r.err.kind = "nil" THEN "ChallengeIssued" ELSE "Aborted",
                  !.ret = IF r.err.kind = "nil" THEN s.ret
                          ELSE MkRet(TRUE, << >>, Wrap("failed to write RC", r.err)),
                  !.card = IF r.err.kind = "nil" THEN CardAfterWrite(s.card, data)
                           ELSE s.card,
                  !.n = 2]

\* the read of ID, CKV, MAC_A came back with tr
ReadIDStep(s, tr) ==
    LET address == << AddressID, AddressCKV, AddressMAC_A >>
        r       == ReadRet(address, tr)
    IN  IF r.err.kind = "nil"
        THEN [s EXCEPT !.log = Append(s.log, Exchange(ReadCmd(address), tr)),
                       !.pc = "IdentityRead",
                       !.resp = r.data,
                       !.c = [s.c EXCEPT !.ID = r.data[1].Data],
                       !.n = 3]
        ELSE [s EXCEPT !.log = Append(s.log, Exchange(ReadCmd(address), tr)),
                       !.pc = "Aborted",
                       !.ret = MkRet(TRUE, << >>, Wrap("failed to read ID", r.err)),
                       !.n = 3]

\* the key lookup and the MAC check
VerifyStep(s) ==
    LET v == NewCardVerify(s.c, s.provider, s.resp)
    IN  [s EXCEPT !.pc = v.pc, !.c = v.c, !.ret = v.ret,
                  !.lookups = s.lookups \o v.lookups, !.crypto = v.crypto,
                  !.n = 4]

\* c declared once for the package and not in NewCard: every call works on
\* the struct the first call holds
Receiver_Package(ss, i) == [ss[i] EXCEPT !.c = ss[1].c]

\* what call i works on: c := FeliCaLiteS{Card: card} is a local of NewCard,
\* and card is the argument of the call
Receiver(ss, i) == ss[i]

ParInit ==
    /\ pc = "Unauthenticated"
    /\ c = ZeroSession
    /\ provider = "nil"
    /\ resp = << >>
    /\ card = ParCards[1]
    /\ op = NoOp
    /\ log = << >>
    /\ ret = MkRet(TRUE, << >>, NoErr)
    /\ lookups = << >>
    /\ crypto = << >>
    /\ calls = 0
    /\ args = << >>
    /\ draws = 0
    /\ sessions = [i \in 1..2 |-> NewSession(ParCards[i])]

ParFrame == UNCHANGED << pc, c, provider, resp, card, op, log, ret, lookups, crypto, calls, args >>

Par_SetService(i) ==
    /\ sessions[i].pc = "Unauthenticated"
    /\ \E p \in Providers, tr \in SetServiceResponses :
         sessions' = [sessions EXCEPT ![i] = SetServiceStep(Receiver(sessions, i), p, tr)]
    /\ UNCHANGED draws
    /\ ParFrame

Par_WriteRC(i) ==
    /\ sessions[i].pc = "ServiceSelected"
    /\ \/ /\ sessions' = [sessions EXCEPT ![i] = RandFailedStep(Receiver(sessions, i))]
          /\ UNCHANGED draws
       \/ /\ \E rc \in RandomChallenges :
               \E tr \in WriteResponses(sessions[i].card,
                                        << [Address |-> 128, Data |-> rc] >>) :
                 sessions' = [sessions EXCEPT
                                 ![i] = WriteRCStep(Receiver(sessions, i), rc, tr)]
          /\ draws' = draws + 1
    /\ ParFrame

Par_ReadID(i) ==
    /\ sessions[i].pc = "ChallengeIssued"
    /\ \E tr \in ReadResponses(sessions[i].card,
                               << AddressID, AddressCKV, AddressMAC_A >>) :
         sessions' = [sessions EXCEPT ![i] = ReadIDStep(Receiver(sessions, i), tr)]
    /\ UNCHANGED draws
    /\ ParFrame

Par_Verify(i) ==
    /\ sessions[i].pc = "IdentityRead"
    /\ sessions' = [sessions EXCEPT ![i] = VerifyStep(Receiver(sessions, i))]
    /\ UNCHANGED draws
    /\ ParFrame

ParNext ==
    \E i \in 1..2 :
        \/ Par_SetService(i)
        \/ Par_WriteRC(i)
        \/ Par_ReadID(i)
        \/ Par_Verify(i)

ParSpec == ParInit /\ [][ParNext]_vars

(***************************************************************************)
(* Properties                                                              *)
(***************************************************************************)
\* the status trailer of a response
Trailer(r) == SubSeq(r, Len(r) - 1, Len(r))

\* an exchange that came back with status 0x90 0x00
Succeeded(ex) == ~ ex.tr.err /\ Trailer(ex.tr.resp) = << 144, 0 >>

\* the error the status convention assigns to a transport result
Outcome(tr) ==
    IF tr.err THEN [kind |-> "transport", raw |-> << >>, msg |-> ""]
    ELSE IF Trailer(tr.resp) = << 144, 0 >> THEN [kind |-> "nil", raw |-> << >>, msg |-> ""]
    ELSE IF Trailer(tr.resp) = << 100, 1 >>
         THEN [kind |-> "ErrNoResponse", raw |-> << >>, msg |-> ""]
    ELSE [kind |-> "ErrUnknown", raw |-> tr.resp, msg |-> ""]

\* block i (from 1) of the payload of a response
PayloadBlock(r, i) == SubSeq(r, 16 * (i - 1) + 1, 16 * i)

InNewCardCall == op.name = "NewCard"

\* the three frames of NewCard: select service 0x0009, write block 0x80,
\* read blocks 0x82, 0x86, 0x91
NewCardFrames ==
    << << 255, 164, 0, 1, 2, 9, 0 >>,
       << 255, 214, 128, 1, 18, 128, 128 >> \o c.RC \o << 0 >>,
       << 255, 176, 128, 3, 6, 128, 130, 128, 134, 128, 145, 0 >> >>

\* the exchanges NewCard has behind it at each state
NewCardProgress ==
    [s \in { "ServiceSelected", "ChallengeIssued", "IdentityRead",
             "Authenticated", "AuthenticationFailed", "MasterKeyNotFound",
             "Unverified" } |->
        CASE s = "ServiceSelected" -> 1
          [] s = "ChallengeIssued" -> 2
          [] OTHER                 -> 3]

C1_Exchanges ==
    InNewCardCall =>
        /\ Len(log) \in 1..3
        /\ \A i \in 1..Len(log) : log[i].cmd = NewCardFrames[i]
        /\ \A i \in 1..(Len(log) - 1) : Succeeded(log[i])
        /\ pc \in DOMAIN NewCardProgress =>
              /\ Len(log) = NewCardProgress[pc]
              /\ Succeeded(log[Len(log)])
        /\ (lookups # << >> \/ crypto # << >> \/ pc \in Returned) =>
              /\ Len(log) = 3
              /\ Succeeded(log[3])

\* the moves between states: forward by one, or out by a failure; a new
\* NewCard starts from the initial state or after an earlier one ended
C1_Moves ==
    pc' # pc =>
        \/ /\ pc \in { "Unauthenticated", "Aborted" } \cup Returned
           /\ pc' \in { "ServiceSelected", "Aborted" }
        \/ /\ pc = "ServiceSelected"
           /\ pc' \in { "ChallengeIssued", "Aborted" }
        \/ /\ pc = "ChallengeIssued"
           /\ pc' \in { "IdentityRead", "Aborted" }
        \/ /\ pc = "IdentityRead"
           /\ pc' \in Returned

\* C1: NewCard goes through Unauthenticated, ServiceSelected, ChallengeIssued,
\* IdentityRead in this order and ends Authenticated or AuthenticationFailed
\* (or, from IdentityRead, with no key found or no provider given); its
\* exchanges are the service select of 0x0009, the write of RC to 0x80 and
\* the read of ID, CKV, MAC_A, each one sent only after the one before it
\* came back with success; the key lookup and the MAC verification happen
\* only after the three-block read succeeded.
C1_SessionOrder == [] C1_Exchanges /\ [][C1_Moves]_vars

\* NewCard reached Authenticated
C1_Witness ==
    InNewCardCall /\ pc = "Authenticated" /\ Len(log) = 3 /\ lookups # << >>

\* the message NewCard wraps the failure of its i-th exchange in
NewCardMsg == << "failed to set service", "failed to write RC", "failed to read ID" >>

\* C2: when the service select, the RC write or the identity read of NewCard
\* fails (transport error, no-response status, unknown status), or the RC
\* generation fails, NewCard returns no session and an error that wraps the
\* cause, and the failed step is the last exchange of the call.
C2_AbortOnFailure ==
    InNewCardCall =>
        /\ \A i \in 1..Len(log) :
              ~ Succeeded(log[i]) =>
                  /\ i = Len(log)
                  /\ pc = "Aborted"
                  /\ ret.nil
                  /\ ret.err = [Outcome(log[i].tr) EXCEPT !.msg = NewCardMsg[i]]
        /\ ret.err.kind = "rand" =>
              /\ pc = "Aborted"
              /\ ret.nil
              /\ ret.err.msg = "failed to generate RC"
              /\ Len(log) = 1
        /\ pc = "Aborted" =>
              /\ ret.nil
              /\ ret.err.kind \in { "transport", "ErrNoResponse", "ErrUnknown", "rand" }
              /\ ret.err.msg # ""

\* the identity read of NewCard came back with an unknown status
C2_Witness ==
    /\ InNewCardCall
    /\ pc = "Aborted"
    /\ Len(log) = 3
    /\ ret.err.kind = "ErrUnknown"
    /\ ret.err.msg = "failed to read ID"

\* the provider of example/main.go knows the key of version 0x00 0x00 alone
KeyKnown(tag) == provider = "example" /\ tag = << 0, 0 >>

\* the key-version tag in the answer to the three-block read
ReadTag == SubSeq(PayloadBlock(log[3].tr.resp, 2), 1, 2)

NewCardReturned == InNewCardCall /\ pc \in Returned

\* C3: when the provider returns nil, NewCard ends with ErrMasterKeyNil and
\* derives nothing: CK and SK are still all zero, no exchange follows the
\* three-block read, and the session is returned with ID set to the identity
\* block read.
C3_MasterKeyNotFound ==
    /\ (NewCardReturned /\ provider # "nil" /\ ~ KeyKnown(ReadTag)) =>
          /\ pc = "MasterKeyNotFound"
          /\ ret.err = [kind |-> "ErrMasterKeyNil", raw |-> << >>, msg |-> ""]
          /\ ~ ret.nil
          /\ c.CK = Zeros(16)
          /\ c.SK = Zeros(16)
          /\ crypto = << >>
          /\ Len(log) = 3
          /\ c.ID = PayloadBlock(log[3].tr.resp, 1)
    /\ pc = "MasterKeyNotFound" =>
          /\ c.CK = Zeros(16)
          /\ c.SK = Zeros(16)
          /\ provider # "nil"

\* the card carries key version 0x01 0x00, which the provider does not know
C3_Witness ==
    /\ NewCardReturned
    /\ pc = "MasterKeyNotFound"
    /\ ReadTag = << 1, 0 >>
    /\ c.ID = CardID1

\* the MAC of the identity read, from the bytes of the answer
IdentityMac ==
    LET r == log[3].tr.resp
    IN  GenMac(c.SK, c.RC,
               << << 130, 0, 134, 0, 145, 0, 255, 255 >>,
                  SubSeq(r, 1, 8), SubSeq(r, 9, 16),
                  SubSeq(r, 17, 24), SubSeq(r, 25, 32) >>)

\* C4: when a master key is found, CK is derived from (master key, ID), SK
\* from (CK, RC), and the read MAC is computed over the ID and CKV blocks
\* read; NewCard returns a nil error (Authenticated) iff that MAC equals the
\* first 8 bytes of the MAC_A block returned, ErrMacNotMatched
\* (AuthenticationFailed) otherwise.
C4_MacDecides ==
    (NewCardReturned /\ KeyKnown(ReadTag)) =>
        /\ c.ID = PayloadBlock(log[3].tr.resp, 1)
        /\ c.CK = GenCardKey(ExampleMasterKey, c.ID)
        /\ c.SK = GenSessionKey(c.CK, c.RC)
        /\ ~ ret.nil
        /\ IF IdentityMac = SubSeq(PayloadBlock(log[3].tr.resp, 3), 1, 8)
           THEN pc = "Authenticated" /\ ret.err.kind = "nil"
           ELSE pc = "AuthenticationFailed" /\ ret.err.kind = "ErrMacNotMatched"

\* an identity block altered on the way fails the authentication
C4_Witness ==
    /\ NewCardReturned
    /\ pc = "AuthenticationFailed"
    /\ card.ID = CardID1
    /\ c.ID # card.ID

\* a genuine card whose MAC_A block was altered after its 8th byte passes
C4_WitnessPadding ==
    /\ NewCardReturned
    /\ pc = "Authenticated"
    /\ SubSeq(PayloadBlock(log[3].tr.resp, 3), 9, 16) # Zeros(8)

MacCall == op.name \in { "ReadWithMac", "WriteWithMac" }

\* the frame of a read of the blocks addrs
ReadFrame(addrs) ==
    << 255, 176, 128, Len(addrs), 2 * Len(addrs) >>
    \o [i \in 1..(2 * Len(addrs)) |-> IF i % 2 = 1 THEN 128 ELSE addrs[i \div 2]]
    \o << 0 >>

\* the addresses a ReadWithMac or WriteWithMac call reads
MacCallReads ==
    IF op.name = "ReadWithMac" THEN Append(op.arg, 145) ELSE << 144, 145 >>

\* C5, as claimed: an authenticated read or write is sent only on a session
\* that ended Authenticated.
C5_OnlyWhenAuthenticated == (MacCall /\ log # << >>) => pc = "Authenticated"

\* C5, amended: ReadWithMac and WriteWithMac check nothing about how NewCard
\* ended; on every session NewCard returned they send their read and compute
\* MACs with the SK the session holds.  Only after Authenticated is that SK
\* the key whose read MAC matched the card's MAC_A; after MasterKeyNotFound
\* or a skipped check it is the all-zero SK.
C5_NoStateGuard ==
    MacCall =>
        /\ Len(log) >= 1
        /\ log[1].cmd = ReadFrame(MacCallReads)
        /\ pc = "Authenticated" =>
              /\ c.SK = GenSessionKey(GenCardKey(ExampleMasterKey, c.ID), c.RC)
              /\ GenReadMac(c.SK, c.RC, resp) = SubSeq(resp[3].Data, 1, 8)
        /\ pc \in { "MasterKeyNotFound", "Unverified" } => c.SK = Zeros(16)

\* an authenticated write attempted on a session whose MAC check was skipped
C5_Witness ==
    /\ op.name = "WriteWithMac"
    /\ pc = "Unverified"
    /\ c.SK = Zeros(16)
    /\ Len(log) >= 1

\* the blocks in the answer to a read of addrs
AnswerBlocks(addrs, r) ==
    [i \in 1..Len(addrs) |-> [Address |-> addrs[i], Data |-> PayloadBlock(r, i)]]

\* the read MAC of an answer r to a read of addrs, MAC_A being the last one
AnswerMac(addrs, r) ==
    LET n == Len(addrs)
        descriptor == [j \in 1..8 |->
                          IF (j + 1) \div 2 > n THEN 255
                          ELSE IF j % 2 = 1 THEN addrs[(j + 1) \div 2] ELSE 0]
        halves == [k \in 1..(2 * (n - 1)) |-> SubSeq(r, 8 * (k - 1) + 1, 8 * k)]
    IN  GenMac(c.SK, c.RC, << descriptor >> \o halves)

\* the MAC an answer r to a read of addrs carries in its last block
AnswerCarries(addrs, r) == SubSeq(PayloadBlock(r, Len(addrs)), 1, 8)

\* C6: ReadWithMac(addresses), for the 1 to 3 addresses it is documented for,
\* issues exactly one read of addresses ++ [MAC_A] and compares the read MAC
\* of the non-MAC blocks returned with the first 8 bytes of the last block:
\* nil error iff equal; on a mismatch ErrMacNotMatched together with all the
\* blocks read; on a transport or status failure no blocks.  On an
\* Authenticated session an answer with a byte of a data block altered is a
\* mismatch.
C6_ReadWithMac ==
    (op.name = "ReadWithMac" /\ Len(op.arg) <= 3) =>
        LET all == Append(op.arg, 145)
            r   == log[1].tr.resp
        IN  /\ Len(log) = 1
            /\ log[1].cmd = ReadFrame(all)
            /\ ~ ret.panic
            /\ IF ~ Succeeded(log[1])
               THEN /\ ret.nil
                    /\ ret.data = << >>
                    /\ ret.err = Outcome(log[1].tr)
               ELSE /\ ~ ret.nil
                    /\ ret.data = AnswerBlocks(all, r)
                    /\ IF AnswerMac(all, r) = AnswerCarries(all, r)
                       THEN ret.err.kind = "nil"
                       ELSE ret.err = [kind |-> "ErrMacNotMatched", raw |-> << >>, msg |-> ""]
                    /\ pc = "Authenticated" =>
                          LET sent == CardReadPayload(card, all)
                              m    == 16 * Len(op.arg) + 8
                          IN  ret.err.kind = "nil" <=> SubSeq(r, 1, m) = SubSeq(sent, 1, m)

\* a data block altered on the way: ErrMacNotMatched, and the blocks returned
C6_Witness ==
    /\ op.name = "ReadWithMac"
    /\ pc = "Authenticated"
    /\ Succeeded(log[1])
    /\ Len(op.arg) = 2
    /\ ret.err.kind = "ErrMacNotMatched"
    /\ Len(ret.data) = 3
    /\ ret.data[1].Data # CardBlockData(card, op.arg[1])

\* the write MAC of block blk under the counter in the answer r
AnswerWriteMac(r, blk) ==
    GenMac(c.SK, c.RC,
           << << r[1], r[2], r[3], 0, blk.Address, 0, 145, 0 >>,
              SubSeq(blk.Data, 1, 8), SubSeq(blk.Data, 9, 16) >>)

\* C7: WriteWithMac(block) first reads WCNT with MAC, then sends one write of
\* two blocks, the target block and then a MAC_A block whose payload is the
\* write MAC followed by 8 zero bytes, the MAC being computed from the first
\* 3 bytes of the WCNT block read in this very call.
C7_WriteWithMac ==
    op.name = "WriteWithMac" =>
        /\ Len(log) \in 1..2
        /\ log[1].cmd = << 255, 176, 128, 2, 4, 128, 144, 128, 145, 0 >>
        /\ Len(log) = 2 =>
              LET blk == op.arg[1]
              IN  /\ Succeeded(log[1])
                  /\ log[2].cmd =
                        << 255, 214, 128, 2, 36, 128, blk.Address, 128, 145 >>
                        \o blk.Data
                        \o AnswerWriteMac(log[1].tr.resp, blk) \o Zeros(8)
                        \o << 0 >>

\* a second authenticated write, under the counter the first one advanced
C7_Witness ==
    /\ op.name = "WriteWithMac"
    /\ Len(log) = 2
    /\ Succeeded(log[2])
    /\ SubSeq(log[1].tr.resp, 1, 3) = << 3, 1, 0 >>
    /\ card.WCNT = 260

\* the WCNT read of a WriteWithMac call came back and its MAC matched
WcntReadVerified ==
    /\ Succeeded(log[1])
    /\ AnswerMac(<< 144, 145 >>, log[1].tr.resp)
         = AnswerCarries(<< 144, 145 >>, log[1].tr.resp)

\* C8: when the WCNT read inside WriteWithMac fails, a MAC that does not
\* match included, WriteWithMac returns that error and sends no write.
C8_NoWriteAfterFailedRead ==
    op.name = "WriteWithMac" =>
        /\ ~ WcntReadVerified =>
              /\ Len(log) = 1
              /\ ret.err = IF Succeeded(log[1])
                           THEN [kind |-> "ErrMacNotMatched", raw |-> << >>, msg |-> ""]
                           ELSE Outcome(log[1].tr)
        /\ Len(log) = 2 => WcntReadVerified

\* the WCNT block came back altered: the read succeeded, its MAC did not match
C8_Witness ==
    /\ op.name = "WriteWithMac"
    /\ pc = "Authenticated"
    /\ Succeeded(log[1])
    /\ ret.err.kind = "ErrMacNotMatched"
    /\ Len(log) = 1

\* C9: GetData, SetService, Read and Write decode the last two bytes of the
\* response the same way: 0x90 0x00 is success, 0x64 0x01 is ErrNoResponse,
\* anything else ErrUnknown with the raw response; a transport error comes
\* back unchanged; each exchange ends in exactly one of these four.
C9_StatusDecoding ==
    op.name \in { "GetData", "SetService", "Read", "Write" } =>
        /\ Len(log) = 1
        /\ ret.err = Outcome(log[1].tr)
        /\ ret.err.kind \in { "nil", "transport", "ErrNoResponse", "ErrUnknown" }
        /\ ret.err.kind = "ErrUnknown" => ret.err.raw = log[1].tr.resp

\* a status that shares its first byte with success
C9_Witness ==
    /\ op.name = "SetService"
    /\ log[1].tr.resp = << 144, 1 >>
    /\ ret.err.kind = "ErrUnknown"
    /\ ret.err.raw = << 144, 1 >>

\* C10: no call sends a command twice.  SetService, Read, Write, ReadWithMac
\* (and GetData) issue exactly one exchange, WriteWithMac one read and then
\* at most one write, NewCard at most three exchanges.
C10_NoRetry ==
    /\ op.name \in { "GetData", "SetService", "Read", "Write", "ReadWithMac" } =>
          Len(log) = 1
    /\ op.name = "WriteWithMac" =>
          /\ Len(log) \in 1..2
          /\ log[1].cmd[2] = 176
          /\ Len(log) = 2 => log[2].cmd[2] = 214
    /\ op.name = "NewCard" => Len(log) \in 1..3
    /\ \A i, j \in 1..Len(log) : i # j => log[i].cmd # log[j].cmd

\* a no-response status ends the call after its single exchange
C10_Witness ==
    /\ op.name = "SetService"
    /\ Len(log) = 1
    /\ ret.err.kind = "ErrNoResponse"

\* the tag the provider was called with in this session, when it was called
LookupKey == Lookup(provider, lookups[1])

\* C11: the key provider is called at most once per session, only after the
\* three-block read succeeded, with bytes 0 and 1 of the block read from the
\* CKV address; CK is derived from the key the provider returned for that tag
\* in this session, and when the provider returns nil nothing is derived from
\* any other key (CK and SK stay all zero).
C11_ProviderCalls ==
    /\ Len(lookups) <= 1
    /\ lookups # << >> =>
          /\ provider # "nil"
          /\ pc \in { "Authenticated", "AuthenticationFailed", "MasterKeyNotFound" }
          /\ Len(resp) = 3
          /\ resp[2].Address = 134
          /\ lookups[1] = << resp[2].Data[1], resp[2].Data[2] >>
          /\ InNewCardCall =>
                /\ Len(log) = 3
                /\ Succeeded(log[3])
                /\ lookups[1] = ReadTag
    /\ pc \in { "Authenticated", "AuthenticationFailed", "MasterKeyNotFound" } =>
          Len(lookups) = 1
    /\ pc \in { "Authenticated", "AuthenticationFailed" } =>
          /\ KeyKnown(lookups[1])
          /\ LookupKey.found
          /\ c.CK = GenCardKey(LookupKey.key, c.ID)
    /\ pc = "MasterKeyNotFound" =>
          /\ ~ KeyKnown(lookups[1])
          /\ c.CK = Zeros(16)
          /\ c.SK = Zeros(16)
          /\ InNewCardCall => crypto = << >>

\* the provider was asked for version 0x00 0x00 and CK came from its key
C11_Witness ==
    /\ InNewCardCall
    /\ lookups = << << 0, 0 >> >>
    /\ c.CK = GenCardKey(ExampleMasterKey, CardID2)
    /\ pc = "AuthenticationFailed"

\* a step that is a call of the method fn of package felica
FelicaCall(fn) == calls' = calls + 1 /\ op'.name = fn

C12_Result ==
    op.name = "GenCardKey" =>
        /\ c.CK = GenCardKey(op.arg[1], c.ID)
        /\ Len(c.CK) = 16
        /\ args = op.arg

C12_Step ==
    FelicaCall("GenCardKey") =>
        /\ c'.ID = c.ID
        /\ c'.RC = c.RC
        /\ c'.SK = c.SK
        /\ args' = op'.arg
        /\ (op.name = "GenCardKey" /\ op.arg = op'.arg) => c'.CK = c.CK

\* C12: GenCardKey is deterministic and pure: the 16-byte key it stores is a
\* function of (master key, ID) alone, so a second evaluation on the same
\* master key and ID stores the same key; the call leaves the master key
\* buffer and the struct's ID, RC and SK as they were.
C12_GenCardKeyPure == [] C12_Result /\ [][C12_Step]_vars

\* GenCardKey called a second time, on a struct whose SK was derived between
C12_Witness ==
    /\ op.name = "GenCardKey"
    /\ calls = 3
    /\ op.arg = << ForeignMasterKey >>
    /\ c.ID = CardID2
    /\ c.SK \notin FelicaKeys

\* C13: for every card key and every two different challenges the session
\* keys differ: the key GenSessionKey stored is not the key it derives from
\* the same CK and any other challenge.
C13_SessionKeyDependsOnRC ==
    op.name = "GenSessionKey" =>
        \A rc2 \in FelicaRCs :
            rc2 # c.RC => GenSessionKeyCall([c EXCEPT !.RC = rc2]).SK # c.SK

\* a second challenge with the same first half: the session keys share
\* their first half and differ in the second
C13_Witness ==
    /\ op.name = "GenSessionKey"
    /\ \E rc2 \in FelicaRCs :
         /\ rc2 # c.RC
         /\ SubSeq(rc2, 1, 8) = SubSeq(c.RC, 1, 8)
         /\ SubSeq(GenSessionKey(c.CK, rc2), 1, 8) = SubSeq(c.SK, 1, 8)
         /\ SubSeq(GenSessionKey(c.CK, rc2), 9, 16) # SubSeq(c.SK, 9, 16)

\* the chunks data with bit b of byte j of chunk k flipped
FlipBit(data, k, j, b) ==
    [data EXCEPT ![k] = [@ EXCEPT ![j] = Xor8(@, 2 ^ b)]]

\* C14: for a fixed SK and RC, flipping any one bit of any one chunk of the
\* sequence handed to GenMac gives a different MAC.
C14_MacSensitive ==
    op.name = "GenMac" =>
        \A k \in 1..Len(op.arg[1]), j \in 1..8, b \in 0..7 :
            GenMacCall(c, FlipBit(op.arg[1], k, j, b)).mac # ret.data

\* three chunks were handed to GenMac; the top bit of the last byte of the
\* first one decides the MAC as well
C14_Witness ==
    /\ op.name = "GenMac"
    /\ op.arg[1] = << ChunkA, ChunkB, ChunkA >>
    /\ ret.data = GenMac(c.SK, c.RC, << ChunkA, ChunkB, ChunkA >>)
    /\ ret.data # GenMac(c.SK, c.RC, FlipBit(<< ChunkA, ChunkB, ChunkA >>, 1, 8, 7))

\* L of GenCardKey before its shift loop: the encryption of the zero block
\* under the master key the call was handed
CardKeyL(masterKey) == TripleDESEncrypt(masterKey, Zeros(8))

\* C15: the doubling step of the card-key derivation is a bijection on
\* 8-byte buffers: two different L never give the same doubled L, zero maps
\* to zero, and no non-zero L maps to itself.
C15_DoublingBijective ==
    op.name = "GenCardKey" =>
        LET L == CardKeyL(op.arg[1])
        IN  /\ \A mk2 \in MasterKeys :
                  CardKeyL(mk2) # L => ShiftL(CardKeyL(mk2)) # ShiftL(L)
            /\ L = Zeros(8) => ShiftL(L) = Zeros(8)
            /\ L # Zeros(8) => ShiftL(L) # L

\* the doubling of an 8-byte buffer: the 64-bit value shifted left by one
\* bit, 0x1B xored into the last byte when the top bit was shifted out
double_gf(buf) ==
    LET shifted == [i \in 1..8 |->
                       (2 * buf[i] + (IF i < 8 THEN buf[i + 1] \div 128 ELSE 0)) % 256]
    IN  IF buf[1] >= 128
        THEN [shifted EXCEPT ![8] = Xor8(shifted[8], 27)]
        ELSE shifted

\* C16: the shift loop of GenCardKey computes the doubling of L: byte i of
\* the result is L[i] << 1 with the top bit of L[i+1] as its bottom bit, the
\* last byte is L[7] << 1, and 0x1B is xored into the last byte iff the top
\* bit of L[0] was set.
C16_DoublingAsSpecified ==
    op.name = "GenCardKey" => ShiftL(CardKeyL(op.arg[1])) = double_gf(CardKeyL(op.arg[1]))

\* C17: with E the encryption of one block under the 24-byte master key as
\* it is and L what the shift loop leaves of E(0), GenCardKey stores T1 || T2
\* where M1 = id[0:8], M2 = id[8:16] xor L, T1 = E(M1), C2 = E(M1 with bit
\* 0x80 of its first byte flipped) and T2 = E(C2 xor M2).
C17_CardKeyStructure ==
    op.name = "GenCardKey" =>
        LET mk  == op.arg[1]
            L   == ShiftL(CardKeyL(mk))
            M1  == [i \in 1..8 |-> c.ID[i]]
            M2  == [i \in 1..8 |-> Xor8(c.ID[8 + i], L[i])]
            T1  == TripleDESEncrypt(mk, M1)
            C2  == TripleDESEncrypt(mk, [i \in 1..8 |->
                                            IF i = 1 THEN Xor8(M1[1], 128) ELSE M1[i]])
            T2  == TripleDESEncrypt(mk, [i \in 1..8 |-> Xor8(C2[i], M2[i])])
        IN  /\ Len(mk) = 24
            /\ c.CK = [i \in 1..16 |-> IF i <= 8 THEN T1[i] ELSE T2[i - 8]]

\* a card key whose halves differ, derived under the twin key
C17_Witness ==
    /\ op.name = "GenCardKey"
    /\ op.arg = << TwinMasterKey >>
    /\ c.ID = CardID1
    /\ SubSeq(c.CK, 1, 8) # SubSeq(c.CK, 9, 16)

\* the 24-byte cipher key of a 16-byte key K: with R the bytes of K in
\* reverse order, R[8:16] || R[0:8] || R[8:16]
TripleKey(K) ==
    [i \in 1..24 |->
        IF i <= 8 THEN K[9 - i] ELSE K[25 - i]]

RECURSIVE Chain(_, _, _, _)
\* chain_n of the chunks v: chain_0 = reverse(rc[0:8]) and
\* chain_k = E(chain_(k-1) xor reverse(v_k))
Chain(k, rc, v, n) ==
    IF n = 0 THEN [i \in 1..8 |-> rc[9 - i]]
    ELSE LET prev == Chain(k, rc, v, n - 1)
         IN  TripleDESEncrypt(k, [i \in 1..8 |-> Xor8(prev[i], v[n][9 - i])])

C18_Result ==
    /\ op.name = "GenSessionKey" =>
          LET k  == TripleKey(c.CK)
              e1 == TripleDESEncrypt(k, [i \in 1..8 |-> c.RC[9 - i]])
              e2 == TripleDESEncrypt(k, [i \in 1..8 |-> Xor8(e1[i], c.RC[17 - i])])
          IN  c.SK = [i \in 1..16 |-> IF i <= 8 THEN e1[9 - i] ELSE e2[17 - i]]
    /\ op.name = "GenMac" =>
          LET chain == Chain(TripleKey(c.SK), c.RC, op.arg[1], Len(op.arg[1]))
          IN  ret.data = [i \in 1..8 |-> chain[9 - i]]

C18_Step ==
    FelicaCall("GenSessionKey") => (c'.CK = c.CK /\ c'.RC = c.RC /\ c'.ID = c.ID)

\* C18: GenSessionKey builds its cipher key from CK as R[8:16] || R[0:8] ||
\* R[8:16], R being CK reversed once, and stores reverse(e1) || reverse(e2)
\* with e1 = E(reverse(rc[0:8])) and e2 = E(e1 xor reverse(rc[8:16])); GenMac
\* builds its cipher key from SK by the same rule; GenSessionKey leaves the
\* stored CK and RC as they were.
C18_SessionKeyStructure == [] C18_Result /\ [][C18_Step]_vars

\* a session key derived from a card key that GenCardKey derived
C18_Witness ==
    /\ op.name = "GenSessionKey"
    /\ c.CK = GenCardKey(ExampleMasterKey, CardID1)
    /\ c.SK # TripleKey(c.CK)
    /\ SubSeq(c.SK, 1, 8) # SubSeq(c.SK, 9, 16)

C19_Result ==
    op.name = "GenMac" =>
        LET v     == op.arg[1]
            chain == Chain(TripleKey(c.SK), c.RC, v, Len(v))
        IN  /\ ret.data = [i \in 1..8 |-> chain[9 - i]]
            /\ v = << >> => ret.data = SubSeq(c.RC, 1, 8)
            /\ args = << v >>
            /\ ~ ret.panic

C19_Step == FelicaCall("GenMac") => c' = c

\* C19: GenMac returns reverse(chain_n), chain_0 being reverse(rc[0:8]) and
\* chain_k = E(chain_(k-1) xor reverse(v_k)) for the chunks in the order
\* given; for no chunk at all it returns rc[0:8]; it changes neither the
\* caller's chunks nor the stored SK and RC.
C19_MacChain == [] C19_Result /\ [][C19_Step]_vars

\* the same two chunks in the two orders give two MACs
C19_Witness ==
    /\ op.name = "GenMac"
    /\ op.arg[1] = << ChunkB, ChunkA >>
    /\ ret.data # GenMac(c.SK, c.RC, << ChunkA, ChunkB >>)
    /\ c.SK # Zeros(16)

\* the number of blocks before the first one whose address is MAC_A
BeforeMacA(blocks) ==
    IF \E i \in 1..Len(blocks) : blocks[i].Address = 145
    THEN (CHOOSE i \in 1..Len(blocks) :
              /\ blocks[i].Address = 145
              /\ \A j \in 1..(i - 1) : blocks[j].Address # 145) - 1
    ELSE Len(blocks)

\* the read-MAC input of a list of at most 4 blocks
ReadMacInput(blocks) ==
    [m \in 1..(1 + 2 * BeforeMacA(blocks)) |->
        IF m = 1
        THEN [j \in 1..8 |->
                 IF (j - 1) \div 2 >= Len(blocks) THEN 255
                 ELSE IF j % 2 = 1 THEN blocks[(j + 1) \div 2].Address
                 ELSE 0]
        ELSE LET blk == blocks[m \div 2]
             IN  IF m % 2 = 0
                 THEN [i \in 1..8 |-> blk.Data[i]]
                 ELSE [i \in 1..8 |-> blk.Data[8 + i]]]

OtherWrites(wcnt, block) ==
    { << [wcnt EXCEPT ![n] = Xor8(wcnt[n], 1)], block >> : n \in 1..3 }
    \cup { << wcnt, [block EXCEPT !.Address = Xor8(block.Address, 1)] >> }
    \cup { << wcnt, [block EXCEPT !.Data[j] = Xor8(block.Data[j], 128)] >> : j \in 1..16 }

\* C21: the write-MAC input is three chunks: [wcnt0, wcnt1, wcnt2, 0x00,
\* target address, 0x00, 0x91, 0x00], bytes 0..7 of the value, bytes 8..15
\* of the value; a write that differs in the counter, in the address or in a
\* byte of the value has another MAC input.
C21_WriteMacInput ==
    op.name = "GenWriteMac" =>
        LET wcnt  == op.arg[1]
            block == op.arg[2]
        IN  /\ Len(crypto) = 1
            /\ crypto[1].data =
                  << << wcnt[1], wcnt[2], wcnt[3], 0, block.Address, 0, 145, 0 >>,
                     [i \in 1..8 |-> block.Data[i]],
                     [i \in 1..8 |-> block.Data[8 + i]] >>
            /\ ret.data = GenMac(c.SK, c.RC, crypto[1].data)
            /\ \A w \in OtherWrites(wcnt, block) :
                  GenWriteMacData(w[1], w[2]) # crypto[1].data

\* the MAC input of the write of block 0x01 under the counter 3, 1, 0
C21_Witness ==
    /\ op.name = "GenWriteMac"
    /\ op.arg[1] = << 3, 1, 0 >>
    /\ crypto[1].data[1] = << 3, 1, 0, 0, 1, 0, 145, 0 >>
    /\ Len(crypto[1].data) = 3

\* the frame that writes the 16 bytes rc to block 0x80
RCWriteFrame(rc) == << 255, 214, 128, 1, 18, 128, 128 >> \o rc \o << 0 >>

C22_Challenge ==
    /\ (InNewCardCall /\ Len(log) >= 2) =>
          /\ c.RC \in RandomChallenges
          /\ log[2].cmd = RCWriteFrame(c.RC)
          /\ draws >= 1
    /\ (InNewCardCall /\ ret.err.kind = "rand") =>
          /\ Len(log) = 1
          /\ c.RC = Zeros(16)
    /\ (InNewCardCall /\ Len(log) < 2) => c.RC = Zeros(16)
    /\ pc \in { "Authenticated", "AuthenticationFailed" } =>
          c.SK = GenSessionKey(c.CK, c.RC)
    /\ (op.name = "ReadWithMac" /\ ~ ret.nil /\ ~ ret.panic) =>
          (ret.err.kind = "nil"
             <=> GenReadMac(c.SK, c.RC, ret.data) = SubSeq(ret.data[Len(ret.data)].Data, 1, 8))
    /\ (op.name = "WriteWithMac" /\ Len(log) = 2) =>
          log[2].cmd = WriteCmd(<< op.arg[1],
                                   [Address |-> 145,
                                    Data |-> GenWriteMac(c.SK, c.RC,
                                                SubSeq(log[1].tr.resp, 1, 3), op.arg[1])
                                             \o Zeros(8)] >>)

C22_Step ==
    /\ draws' # draws =>
          /\ pc = "ServiceSelected"
          /\ draws' = draws + 1
          /\ Len(log) = 1
          /\ Len(log') = 2
          /\ log'[2].cmd = RCWriteFrame(c'.RC)
    /\ c'.RC # c.RC =>
          \/ /\ op'.name = "NewCard"
             /\ Len(log') = 1
             /\ c'.RC = Zeros(16)
          \/ /\ pc = "ServiceSelected"
             /\ draws' = draws + 1
    /\ (pc = "ServiceSelected" /\ pc' = "ChallengeIssued") => draws' = draws + 1
    /\ (Len(log') = 2 /\ Len(log) = 1 /\ op'.name = "NewCard") => draws' = draws + 1

\* C22: within a session the challenge is generated once, before the RC
\* write; the RC that SK is derived from and that every MAC is computed with
\* is the 16 bytes written to block 0x80; every NewCard call that gets to the
\* RC write has rand.Read fill a new RC (a new session starts from an
\* all-zero RC, nothing is taken over from the session before); when
\* rand.Read fails no RC write is sent.
C22_ChallengePerSession == [] C22_Challenge /\ [][C22_Step]_vars

\* a second session on the same card, authenticated under its own challenge
C22_Witness ==
    /\ InNewCardCall
    /\ draws = 2
    /\ pc = "Authenticated"
    /\ log[2].cmd = RCWriteFrame(c.RC)
    /\ card.RC = c.RC

\* a step that starts a new NewCard call, on a new session object
NewCardStarts == op'.name = "NewCard" /\ Len(log') = 1 /\ c' = ZeroSession

C23_Set ==
    pc \in Returned =>
        /\ c.ID = resp[1].Data
        /\ c.RC \in RandomChallenges
        /\ pc \in { "Authenticated", "AuthenticationFailed" } =>
              /\ c.CK = GenCardKey(LookupKey.key, c.ID)
              /\ c.SK = GenSessionKey(c.CK, c.RC)
        /\ pc \in { "MasterKeyNotFound", "Unverified" } =>
              (c.CK = Zeros(16) /\ c.SK = Zeros(16))

C23_Step ==
    /\ (pc \in Returned /\ ~ NewCardStarts) => c' = c
    /\ c'.ID # c.ID =>
          \/ NewCardStarts
          \/ pc = "ChallengeIssued" /\ pc' = "IdentityRead"
    /\ (c'.CK # c.CK \/ c'.SK # c.SK) =>
          \/ NewCardStarts
          \/ pc = "IdentityRead" /\ pc' \in { "Authenticated", "AuthenticationFailed" }

\* C23: once NewCard has returned a session, no Read, ReadWithMac, Write,
\* WriteWithMac, SetService, GenReadMac, GenWriteMac or GenMac call changes
\* its ID, RC, CK or SK: ID is set once, from the identity block, and CK and
\* SK are computed once, in NewCard.
C23_SessionFrame == [] C23_Set /\ [][C23_Step]_vars

\* GenWriteMac called directly on an authenticated session, as the third call
C23_Witness ==
    /\ pc = "Authenticated"
    /\ op.name = "GenWriteMac"
    /\ calls = 3
    /\ c.SK = GenSessionKey(GenCardKey(ExampleMasterKey, CardID1), c.RC)
    /\ ret.data = GenWriteMac(c.SK, c.RC, op.arg[1], op.arg[2])

\* the call s run alone on the card cd: the same provider, the same RC (the
\* bytes its write frame carries) and the same responses, for as many steps
\* as s has taken
RunAlone(cd, s) ==
    LET a0 == NewSession(cd)
        a1 == SetServiceStep(a0, s.provider, s.log[1].tr)
        a2 == IF s.ret.err.kind = "rand" THEN RandFailedStep(a1)
              ELSE WriteRCStep(a1, SubSeq(s.log[2].cmd, 8, 23), s.log[2].tr)
        a3 == ReadIDStep(a2, s.log[3].tr)
        a4 == VerifyStep(a3)
    IN  CASE s.n = 0 -> a0
          [] s.n = 1 -> a1
          [] s.n = 2 -> a2
          [] s.n = 3 -> a3
          [] OTHER   -> a4

\* what a call that found the key holds, from its own exchanges alone
OwnKeys(s) ==
    /\ s.c.RC = SubSeq(s.log[2].cmd, 8, 23)
    /\ s.c.ID = PayloadBlock(s.log[3].tr.resp, 1)
    /\ s.c.CK = GenCardKey(ExampleMasterKey, s.c.ID)
    /\ s.c.SK = GenSessionKey(s.c.CK, s.c.RC)
    /\ s.card.RC = s.c.RC

C24_Alone ==
    \A i \in 1..2 :
        /\ sessions[i] = RunAlone(ParCards[i], sessions[i])
        /\ sessions[i].pc \in { "Authenticated", "AuthenticationFailed" } =>
              OwnKeys(sessions[i])

C24_Step ==
    \A i \in 1..2 :
        sessions'[i] # sessions[i] => \A j \in 1..2 : j # i => sessions'[j] = sessions[j]

\* C24: two NewCard calls on two different cards share no mutable state:
\* however their transport exchanges interleave, each call sends the
\* commands and ends with the ID, CK, SK and outcome it has when it runs
\* alone with the same RC and the same responses, and a step of one call
\* changes nothing the other call holds.
C24_Independent == [] C24_Alone /\ [][C24_Step]_vars

\* both calls authenticated, each with the card key of its own card, under
\* challenges that happen to be equal
C24_Witness ==
    /\ sessions[1].pc = "Authenticated"
    /\ sessions[2].pc = "Authenticated"
    /\ sessions[1].c.CK = GenCardKey(ExampleMasterKey, CardID1)
    /\ sessions[2].c.CK = GenCardKey(ExampleMasterKey, CardID2)
    /\ sessions[1].c.RC = sessions[2].c.RC
    /\ sessions[1].c.SK # sessions[2].c.SK

\* the read ReadWithMac makes came back with blocks
MacReadSucceeded ==
    ReadRet(Append(op.arg, AddressMAC_A), log[1].tr).err.kind = "nil"

\* C25: ReadWithMac ends with a result for every address list of length 1 to
\* 3: once its read succeeded it returns the blocks with a nil error or with
\* ErrMacNotMatched. For a list of 4 addresses the read command for all the
\* addresses plus MAC_A is still sent, and once that read succeeded the MAC
\* computation indexes the 8-byte descriptor out of range: the call ends in
\* a panic and returns no error value.
C25_ReadWithMacArity ==
    op.name = "ReadWithMac" =>
      /\ Len(log) = 1
      /\ log[1].cmd = ReadFrame(Append(op.arg, 145))
      /\ Len(op.arg) \in 1..3 =>
           /\ ~ ret.panic
           /\ MacReadSucceeded =>
                /\ ~ ret.nil
                /\ Len(ret.data) = Len(op.arg) + 1
                /\ ret.err \in { NoErr, ErrMacNotMatched }
      /\ Len(op.arg) >= 4 =>
           /\ ret.panic <=> MacReadSucceeded
           /\ ret.panic => ret = Panicked
           /\ ~ ret.panic => (ret.nil /\ ret.err.kind # "nil")

\* a read of four addresses and MAC_A that the card answered with success,
\* after which the call panicked
C25_Witness ==
    /\ op.name = "ReadWithMac"
    /\ Len(op.arg) = 4
    /\ log[1].cmd = ReadFrame(Append(op.arg, 145))
    /\ MacReadSucceeded
    /\ ret.panic

=============================================================================
